---------------------------- MODULE Spec2Model ----------------------------
(***************************************************************************)
(* A model of parse_result.py, the MQSim result summarizer: the experiment *)
(* name parser, the four metric extractors, summarize_file and the batch   *)
(* driver main.                                                            *)
(*                                                                         *)
(* Python strings are sequences of one-character strings, so that prefix   *)
(* tests, splitting, regular-expression digit runs and number parsing are  *)
(* computed rather than assumed.  Python values are tagged records         *)
(* ([k |-> "null"], [k |-> "int", v |-> 3], ...): None, int, float and str *)
(* stay distinct.  Floats are exact rationals n/d (d > 0, reduced) plus    *)
(* inf, -inf and nan; binary rounding is not modelled.                     *)
(***************************************************************************)
EXTENDS Integers, Sequences, FiniteSets, TLC

VARIABLES
    nm_pc, nm_name, nm_info,          \* parse_experiment_name applied to one file name
    d_pc, d_doc, d_row,               \* summarize_file applied to one document
    pc, fs, listing, xml_files, idx, rows, header, out_open, out_lines, fatal

nameVars == <<nm_pc, nm_name, nm_info>>
docVars == <<d_pc, d_doc, d_row>>
mainVars == <<pc, fs, listing, xml_files, idx, rows, header, out_open, out_lines, fatal>>
vars == <<nm_pc, nm_name, nm_info, d_pc, d_doc, d_row,
          pc, fs, listing, xml_files, idx, rows, header, out_open, out_lines, fatal>>

----------------------------------------------------------------------------
(* Bounds of the explored inputs. *)

MaxTokens == 5       \* '_'-separated tokens in an explored file name
MaxFiles == 2        \* directory entries in an explored batch
MaxQueues == 2       \* queue nodes under the TSU node
MaxChips == 2        \* FlashChips nodes
MaxAttrs == 3        \* attributes on the FTL node

----------------------------------------------------------------------------
(* Python values. *)

Null == [k |-> "null"]
IntV(n) == [k |-> "int", v |-> n]
StrV(s) == [k |-> "str", v |-> s]
Raised(e) == [k |-> "raise", v |-> e]

IsNull(x) == x.k = "null"
IsRaised(x) == "k" \in DOMAIN x /\ x.k = "raise"

\* An exception raised while a mapping is built leaves the function.
MapOrRaise(out) ==
    IF \E f \in DOMAIN out : IsRaised(out[f])
        THEN out[CHOOSE f \in DOMAIN out : IsRaised(out[f])]
        ELSE out

RECURSIVE GCD(_, _)
GCD(a, b) == IF b = 0 THEN a ELSE GCD(b, a % b)

\* The float n/d, reduced, with a positive denominator.
Reduced(sgn, n, d, g) == [k |-> "flt", n |-> (sgn * n) \div g, d |-> (sgn * d) \div g]
Flt(n, d) == Reduced(IF d < 0 THEN -1 ELSE 1, n, d, GCD(IF n < 0 THEN -n ELSE n, IF d < 0 THEN -d ELSE d))

PosInf == [k |-> "inf"]
NegInf == [k |-> "ninf"]
NaN == [k |-> "nan"]

IsFinite(x) == x.k = "flt"

\* float(i) for an int i
FloatOfInt(i) == Flt(i, 1)

\* Python truthiness of an Optional number, as in `x or 0`
Truthy(x) ==
    CASE x.k = "null" -> FALSE
      [] x.k = "int" -> x.v # 0
      [] x.k = "flt" -> x.n # 0
      [] OTHER -> TRUE

FSign(x) ==
    CASE x.k = "inf" -> 1
      [] x.k = "ninf" -> -1
      [] x.k = "flt" -> IF x.n > 0 THEN 1 ELSE IF x.n < 0 THEN -1 ELSE 0
      [] OTHER -> 0

\* a + b on floats
FAdd(a, b) ==
    IF a.k = "nan" \/ b.k = "nan" THEN NaN
    ELSE IF IsFinite(a) /\ IsFinite(b) THEN Flt(a.n * b.d + b.n * a.d, a.d * b.d)
    ELSE IF IsFinite(a) THEN b
    ELSE IF IsFinite(b) THEN a
    ELSE IF a.k = b.k THEN a ELSE NaN

\* a * b on floats
FMul(a, b) ==
    IF a.k = "nan" \/ b.k = "nan" THEN NaN
    ELSE IF IsFinite(a) /\ IsFinite(b) THEN Flt(a.n * b.n, a.d * b.d)
    ELSE IF FSign(a) * FSign(b) = 0 THEN NaN
    ELSE IF FSign(a) * FSign(b) > 0 THEN PosInf ELSE NegInf

\* a / b on floats, b finite; b = 0 raises ZeroDivisionError
FDiv(a, b) ==
    IF b.n = 0 THEN Raised("ZeroDivisionError")
    ELSE IF a.k = "nan" THEN NaN
    ELSE IF IsFinite(a) THEN Flt(a.n * b.d, a.d * b.n)
    ELSE IF FSign(a) * FSign(b) > 0 THEN PosInf ELSE NegInf

----------------------------------------------------------------------------
(* Strings: sequences of characters. *)

UpperLetters == <<"A", "B", "C", "D", "E", "F", "G", "H", "I", "J", "K", "L", "M",
                  "N", "O", "P", "Q", "R", "S", "T", "U", "V", "W", "X", "Y", "Z">>
LowerLetters == <<"a", "b", "c", "d", "e", "f", "g", "h", "i", "j", "k", "l", "m",
                  "n", "o", "p", "q", "r", "s", "t", "u", "v", "w", "x", "y", "z">>
Digits == <<"0", "1", "2", "3", "4", "5", "6", "7", "8", "9">>

\* Code-point order of the characters the explored inputs use.
CharOrder == <<" ", "+", "-", ".", "/">> \o Digits \o UpperLetters \o <<"_">> \o LowerLetters

IndexOf(c, seq) == CHOOSE i \in 1..Len(seq) : seq[i] = c
InSeq(c, seq) == \E i \in 1..Len(seq) : seq[i] = c

LowerChar(c) == IF InSeq(c, UpperLetters) THEN LowerLetters[IndexOf(c, UpperLetters)] ELSE c
Lower(s) == [i \in 1..Len(s) |-> LowerChar(s[i])]

IsDigit(c) == InSeq(c, Digits)
DigitVal(c) == IndexOf(c, Digits) - 1

StartsWith(s, p) == Len(s) >= Len(p) /\ SubSeq(s, 1, Len(p)) = p
EndsWith(s, p) == Len(s) >= Len(p) /\ SubSeq(s, Len(s) - Len(p) + 1, Len(s)) = p
Contains(s, p) == \E i \in 1..(Len(s) - Len(p) + 1) : SubSeq(s, i, i + Len(p) - 1) = p
DropPrefix(s, n) == SubSeq(s, n + 1, Len(s))

\* s < t, as Python compares str
RECURSIVE StrLess(_, _)
StrLess(s, t) ==
    IF t = <<>> THEN FALSE
    ELSE IF s = <<>> THEN TRUE
    ELSE IF Head(s) = Head(t) THEN StrLess(Tail(s), Tail(t))
    ELSE IndexOf(Head(s), CharOrder) < IndexOf(Head(t), CharOrder)

\* str.strip() over the one whitespace character of the inputs
RECURSIVE LStrip(_)
LStrip(s) == IF s # <<>> /\ Head(s) = " " THEN LStrip(Tail(s)) ELSE s
RECURSIVE RStrip(_)
RStrip(s) == IF s # <<>> /\ s[Len(s)] = " " THEN RStrip(SubSeq(s, 1, Len(s) - 1)) ELSE s
Strip(s) == RStrip(LStrip(s))

\* s.split(sep): the pieces between occurrences of the character sep
RECURSIVE SplitFrom(_, _, _)
SplitFrom(s, sep, cur) ==
    IF s = <<>> THEN <<cur>>
    ELSE IF Head(s) = sep THEN <<cur>> \o SplitFrom(Tail(s), sep, <<>>)
    ELSE SplitFrom(Tail(s), sep, Append(cur, Head(s)))
Split(s, sep) == SplitFrom(s, sep, <<>>)

\* s.split(sep, 1)[0]
RECURSIVE SplitFirst(_, _)
SplitFirst(s, sep) ==
    IF s = <<>> \/ Head(s) = sep THEN <<>> ELSE <<Head(s)>> \o SplitFirst(Tail(s), sep)

\* the pieces joined by the character sep
RECURSIVE Join(_, _)
Join(parts, sep) ==
    IF Len(parts) = 0 THEN <<>>
    ELSE IF Len(parts) = 1 THEN parts[1]
    ELSE parts[1] \o <<sep>> \o Join(Tail(parts), sep)

\* the longest prefix of s made of digits
RECURSIVE DigitRun(_)
DigitRun(s) == IF s # <<>> /\ IsDigit(Head(s)) THEN <<Head(s)>> \o DigitRun(Tail(s)) ELSE <<>>

IsDigits(s) == s # <<>> /\ \A i \in 1..Len(s) : IsDigit(s[i])

RECURSIVE DigitsValue(_)
DigitsValue(s) == IF s = <<>> THEN 0 ELSE 10 * DigitsValue(SubSeq(s, 1, Len(s) - 1)) + DigitVal(s[Len(s)])

RECURSIVE Pow10(_)
Pow10(m) == IF m = 0 THEN 1 ELSE 10 * Pow10(m - 1)

----------------------------------------------------------------------------
(* int(text) and float(text) on an already stripped, non-empty text without *)
(* exponent or underscore forms.  The result is the value, or               *)
(* Raised("ValueError").                                                    *)

Unsigned(s) == IF s # <<>> /\ Head(s) \in {"+", "-"} THEN Tail(s) ELSE s
SignOf(s) == IF s # <<>> /\ Head(s) = "-" THEN -1 ELSE 1

PyInt(s) ==
    IF IsDigits(Unsigned(s)) THEN IntV(SignOf(s) * DigitsValue(Unsigned(s)))
    ELSE Raised("ValueError")

\* ip and rest are the leading digits of the text and what follows them:
\* digits [. digits*] | . digits
IsDecimal(ip, rest) ==
    \/ ip # <<>> /\ rest = <<>>
    \/ ip # <<>> /\ Head(rest) = "." /\ (Tail(rest) = <<>> \/ IsDigits(Tail(rest)))
    \/ ip = <<>> /\ rest # <<>> /\ Head(rest) = "." /\ IsDigits(Tail(rest))

DecimalValue(sgn, ip, fp) ==
    Flt(sgn * (DigitsValue(ip) * Pow10(Len(fp)) + DigitsValue(fp)), Pow10(Len(fp)))

DecimalOf(sgn, ip, rest) ==
    IF IsDecimal(ip, rest) THEN DecimalValue(sgn, ip, IF rest # <<>> /\ Head(rest) = "." THEN Tail(rest) ELSE <<>>)
    ELSE Raised("ValueError")

FloatOf(sgn, u) ==
    IF u \in {<<"i", "n", "f">>, <<"i", "n", "f", "i", "n", "i", "t", "y">>}
        THEN (IF sgn < 0 THEN NegInf ELSE PosInf)
    ELSE IF u = <<"n", "a", "n">> THEN NaN
    ELSE DecimalOf(sgn, DigitRun(u), DropPrefix(u, Len(DigitRun(u))))

PyFloat(s) == FloatOf(SignOf(s), Lower(Unsigned(s)))

\* int(x) for a float x: truncation; inf raises OverflowError, nan ValueError
IntOfFloat(x) ==
    IF x.k \in {"inf", "ninf"} THEN Raised("OverflowError")
    ELSE IF x.k = "nan" THEN Raised("ValueError")
    ELSE IF x.n >= 0 THEN IntV(x.n \div x.d) ELSE IntV(-((-x.n) \div x.d))

\* except ValueError: return None
CatchValueError(r) == IF IsRaised(r) /\ r.v = "ValueError" THEN Null ELSE r

\* int(float(text)); a ValueError of float() or of int() is caught
IntOfFloatText(f) == IF IsRaised(f) THEN CatchValueError(f) ELSE CatchValueError(IntOfFloat(f))

\* int(text), and int(float(text)) when that raises ValueError
IntOrFloat(i, t) == IF ~IsRaised(i) THEN i ELSE IntOfFloatText(PyFloat(t))

IntOfText(t) == IF t = <<>> THEN Null ELSE IntOrFloat(PyInt(t), t)

\* safe_int: text is Null or StrV(s).  Only ValueError is caught.
safe_int(text) == IF IsNull(text) THEN Null ELSE IntOfText(Strip(text.v))

FloatOfText(t) == IF t = <<>> THEN Null ELSE CatchValueError(PyFloat(t))

safe_float(text) == IF IsNull(text) THEN Null ELSE FloatOfText(Strip(text.v))

----------------------------------------------------------------------------
(* parse_experiment_name *)

\* the string literals of the code
Lit ==
    [wl |-> <<"w", "l">>,
     cache |-> <<"c", "a", "c", "h", "e">>,
     ch |-> <<"c", "h">>,
     chip |-> <<"c", "h", "i", "p">>,
     ioqd |-> <<"i", "o", "q", "d">>,
     tpcc |-> <<"t", "p", "c", "c">>,
     ch_chip |-> <<"c", "h", "_", "c", "h", "i", "p">>,
     dot_xml |-> <<".", "x", "m", "l">>,
     Read_CMD |-> <<"R", "e", "a", "d", "_", "C", "M", "D">>,
     Program_CMD |-> <<"P", "r", "o", "g", "r", "a", "m", "_", "C", "M", "D">>,
     Erase_CMD |-> <<"E", "r", "a", "s", "e", "_", "C", "M", "D">>,
     For_Mapping |-> <<"F", "o", "r", "_", "M", "a", "p", "p", "i", "n", "g">>,
     Read_CMD_For_Mapping |-> <<"R", "e", "a", "d", "_", "C", "M", "D", "_", "F", "o", "r", "_", "M", "a", "p", "p", "i", "n", "g">>,
     Program_CMD_For_Mapping |-> <<"P", "r", "o", "g", "r", "a", "m", "_", "C", "M", "D", "_", "F", "o", "r", "_", "M", "a", "p", "p", "i", "n", "g">>,
     Erase_CMD_For_Mapping |-> <<"E", "r", "a", "s", "e", "_", "C", "M", "D", "_", "F", "o", "r", "_", "M", "a", "p", "p", "i", "n", "g">>,
     User |-> <<"U", "s", "e", "r">>,
     GC |-> <<"G", "C">>,
     Mapping |-> <<"M", "a", "p", "p", "i", "n", "g">>]

\* os.path.basename: what follows the last '/'
RECURSIVE Basename(_)
Basename(p) ==
    IF \E i \in 1..Len(p) : p[i] = "/"
        THEN Basename(DropPrefix(p, CHOOSE i \in 1..Len(p) : p[i] = "/"))
        ELSE p

\* base[:-4] when base.lower().endswith(".xml")
StripXml(base) ==
    IF EndsWith(Lower(base), Lit.dot_xml) THEN SubSeq(base, 1, Len(base) - 4) ELSE base

\* ReMatchNum matching the whole token, as re.fullmatch would
ReMatchNum_WholeToken(prefix, s) ==
    IF StartsWith(s, prefix) /\ IsDigits(DropPrefix(s, Len(prefix)))
        THEN DropPrefix(s, Len(prefix))
        ELSE <<>>

\* re.match(prefix + r"(\d+)", s): group(1), or <<>> when there is no match
ReMatchNum(prefix, s) ==
    IF StartsWith(s, prefix) THEN DigitRun(DropPrefix(s, Len(prefix))) ELSE <<>>

\* m = re.match(...); if m: field = safe_int(m.group(1))
NumAfter(prefix, s) ==
    IF ReMatchNum(prefix, s) # <<>> THEN safe_int(StrV(ReMatchNum(prefix, s))) ELSE Null

\* the chip<M> token expected at (1-based) position i of parts
ChipsAt(parts, i) ==
    IF Len(parts) >= i /\ StartsWith(parts[i], Lit.chip) THEN NumAfter(Lit.chip, parts[i]) ELSE Null

EmptyInfo(base) ==
    [exp_name |-> StrV(base), category |-> Null, cache_size |-> Null, channels |-> Null,
     chips_per_channel |-> Null, io_queue_depth |-> Null, block_size |-> Null,
     access_pattern |-> Null, tpcc_variant |-> Null]

SyntheticCache(info, parts) ==
    LET a == [info EXCEPT !.category = StrV(Lit.cache),
                          !.cache_size = StrV(DropPrefix(parts[2], Len(Lit.cache)))]
    IN  IF Len(parts) >= 4
            THEN [a EXCEPT !.block_size = StrV(parts[3]), !.access_pattern = StrV(parts[4])]
            ELSE a

SyntheticChChip(info, parts) ==
    LET a == [info EXCEPT !.category = StrV(Lit.ch_chip),
                          !.channels = NumAfter(Lit.ch, parts[2]),
                          !.chips_per_channel = ChipsAt(parts, 3)]
    IN  IF Len(parts) >= 5
            THEN [a EXCEPT !.block_size = StrV(parts[4]), !.access_pattern = StrV(parts[5])]
            ELSE a

\* SyntheticIoqd storing the depth under the wrong key
SyntheticIoqd_WrongKey(info, parts) ==
    LET a == [info EXCEPT !.category = StrV(Lit.ioqd),
                          !.channels = NumAfter(Lit.ioqd, parts[2])]
    IN  IF Len(parts) >= 4
            THEN [a EXCEPT !.block_size = StrV(parts[3]), !.access_pattern = StrV(parts[4])]
            ELSE a

SyntheticIoqd(info, parts) ==
    LET a == [info EXCEPT !.category = StrV(Lit.ioqd),
                          !.io_queue_depth = NumAfter(Lit.ioqd, parts[2])]
    IN  IF Len(parts) >= 4
            THEN [a EXCEPT !.block_size = StrV(parts[3]), !.access_pattern = StrV(parts[4])]
            ELSE a

\* Tpcc looking for the chip<M> token where the synthetic names have it
Tpcc_SyntheticChipPosition(info, parts) ==
    LET a == [info EXCEPT !.category = StrV(Lit.tpcc), !.access_pattern = StrV(Lit.tpcc)]
        sub == parts[3]
    IN  IF Len(parts) < 3 THEN a
        ELSE IF StartsWith(sub, Lit.cache)
            THEN [a EXCEPT !.tpcc_variant = StrV(Lit.cache),
                           !.cache_size = StrV(DropPrefix(sub, Len(Lit.cache)))]
        ELSE IF StartsWith(sub, Lit.ch)
            THEN [a EXCEPT !.tpcc_variant = StrV(Lit.ch_chip),
                           !.channels = NumAfter(Lit.ch, sub),
                           !.chips_per_channel = ChipsAt(parts, 3)]
        ELSE IF StartsWith(sub, Lit.ioqd)
            THEN [a EXCEPT !.tpcc_variant = StrV(Lit.ioqd),
                           !.io_queue_depth = NumAfter(Lit.ioqd, sub)]
        ELSE a

Tpcc(info, parts) ==
    LET a == [info EXCEPT !.category = StrV(Lit.tpcc), !.access_pattern = StrV(Lit.tpcc)]
        sub == parts[3]
    IN  IF Len(parts) < 3 THEN a
        ELSE IF StartsWith(sub, Lit.cache)
            THEN [a EXCEPT !.tpcc_variant = StrV(Lit.cache),
                           !.cache_size = StrV(DropPrefix(sub, Len(Lit.cache)))]
        ELSE IF StartsWith(sub, Lit.ch)
            THEN [a EXCEPT !.tpcc_variant = StrV(Lit.ch_chip),
                           !.channels = NumAfter(Lit.ch, sub),
                           !.chips_per_channel = ChipsAt(parts, 4)]
        ELSE IF StartsWith(sub, Lit.ioqd)
            THEN [a EXCEPT !.tpcc_variant = StrV(Lit.ioqd),
                           !.io_queue_depth = NumAfter(Lit.ioqd, sub)]
        ELSE a

\* parse_experiment_name taking any token that starts with 'tpcc' for the TPCC kind
parse_experiment_name_PrefixTpcc(filename) ==
    LET base == StripXml(Basename(filename))
        parts == Split(base, "_")
        info == EmptyInfo(base)
    IN  IF Len(parts) < 2 \/ parts[1] # Lit.wl THEN info
        ELSE LET kind == parts[2] IN
             IF StartsWith(kind, Lit.cache) THEN MapOrRaise(SyntheticCache(info, parts))
             ELSE IF StartsWith(kind, Lit.ch) THEN MapOrRaise(SyntheticChChip(info, parts))
             ELSE IF StartsWith(kind, Lit.ioqd) THEN MapOrRaise(SyntheticIoqd(info, parts))
             ELSE IF StartsWith(kind, Lit.tpcc) THEN MapOrRaise(Tpcc(info, parts))
             ELSE info

parse_experiment_name(filename) ==
    LET base == StripXml(Basename(filename))
        parts == Split(base, "_")
        info == EmptyInfo(base)
    IN  IF Len(parts) < 2 \/ parts[1] # Lit.wl THEN info
        ELSE LET kind == parts[2] IN
             IF StartsWith(kind, Lit.cache) THEN MapOrRaise(SyntheticCache(info, parts))
             ELSE IF StartsWith(kind, Lit.ch) THEN MapOrRaise(SyntheticChChip(info, parts))
             ELSE IF StartsWith(kind, Lit.ioqd) THEN MapOrRaise(SyntheticIoqd(info, parts))
             ELSE IF kind = Lit.tpcc THEN MapOrRaise(Tpcc(info, parts))
             ELSE info

IdentityKeys ==
    {"exp_name", "category", "cache_size", "channels", "chips_per_channel",
     "io_queue_depth", "block_size", "access_pattern", "tpcc_variant"}

----------------------------------------------------------------------------
(* The parsed document.  An element that is present is a node; one that is  *)
(* absent is Null.  host.ch maps a child tag to its text (Null for an empty *)
(* element); ftl.attrib maps attribute names (strings) to values; tsu.qs is *)
(* the sequence of queue nodes and chips the sequence of FlashChips nodes,  *)
(* each a map from attribute name to value.                                 *)

EmptyMap == <<>>

\* out[key] = val, executed only when cond holds
SetIf(cond, key, val) == IF cond THEN key :> val ELSE EmptyMap

\* The first of the exceptions raised while out is built, or out.
RaisedOr(raises, out) == IF raises # {} THEN CHOOSE x \in raises : TRUE ELSE out

\* get_child_text
get_child_text(parent, tag) == IF tag \in DOMAIN parent.ch THEN parent.ch[tag] ELSE Null

\* attrib.get(key, None) as an Optional[str]
AttrGet(attrib, key) == IF key \in DOMAIN attrib THEN StrV(attrib[key]) ELSE Null

MiB == 1048576
MsDivisor == 1000

\* x / c for an Optional float x that is present
DivBy(x, c) == FDiv(x, Flt(c, 1))

\* the fields read from the children of the host node
HostFields(host) ==
    [host_Request_Count |-> safe_int(get_child_text(host, "Request_Count")),
     host_Read_Request_Count |-> safe_int(get_child_text(host, "Read_Request_Count")),
     host_Write_Request_Count |-> safe_int(get_child_text(host, "Write_Request_Count")),
     host_IOPS |-> safe_float(get_child_text(host, "IOPS")),
     host_Read_IOPS |-> safe_float(get_child_text(host, "Read_IOPS")),
     host_Write_IOPS |-> safe_float(get_child_text(host, "Write_IOPS")),
     host_BW_Bytes_per_s |-> safe_float(get_child_text(host, "Bandwidth")),
     host_Read_BW_Bytes_per_s |-> safe_float(get_child_text(host, "Read_Bandwidth")),
     host_Write_BW_Bytes_per_s |-> safe_float(get_child_text(host, "Write_Bandwidth")),
     host_Device_Response_Time |-> safe_float(get_child_text(host, "Device_Response_Time")),
     host_End_to_End_Request_Delay |->
         safe_float(get_child_text(host, "End_to_End_Request_Delay"))]

\* if x is not None: out[key] = x / c
Scaled(x, key, c) == SetIf(~IsNull(x), key, DivBy(x, c))

\* the fields of out, and the derived fields, each present only when its source is
WithDerived(out) ==
    out
    @@ Scaled(out.host_BW_Bytes_per_s, "host_BW_MiB_per_s", MiB)
    @@ Scaled(out.host_Read_BW_Bytes_per_s, "host_Read_BW_MiB_per_s", MiB)
    @@ Scaled(out.host_Write_BW_Bytes_per_s, "host_Write_BW_MiB_per_s", MiB)
    @@ Scaled(out.host_End_to_End_Request_Delay, "host_E2E_Latency_ms_assuming_us", MsDivisor)

parse_host_metrics(root) ==
    IF IsNull(root.host) THEN EmptyMap ELSE MapOrRaise(WithDerived(HostFields(root.host)))

\* the attribute names the code reads, and those of the flash commands of the inputs
Attr ==
    [Total_CMT_Queries |-> <<"T", "o", "t", "a", "l", "_", "C", "M", "T", "_", "Q", "u", "e", "r", "i", "e", "s">>,
     CMT_Hits |-> <<"C", "M", "T", "_", "H", "i", "t", "s">>,
     Total_CMT_Read_Queries |-> <<"T", "o", "t", "a", "l", "_", "C", "M", "T", "_", "R", "e", "a", "d", "_", "Q", "u", "e", "r", "i", "e", "s">>,
     CMT_Read_Hits |-> <<"C", "M", "T", "_", "R", "e", "a", "d", "_", "H", "i", "t", "s">>,
     Total_CMT_Write_Queries |-> <<"T", "o", "t", "a", "l", "_", "C", "M", "T", "_", "W", "r", "i", "t", "e", "_", "Q", "u", "e", "r", "i", "e", "s">>,
     CMT_Write_Hits |-> <<"C", "M", "T", "_", "W", "r", "i", "t", "e", "_", "H", "i", "t", "s">>,
     Total_GC_Executions |-> <<"T", "o", "t", "a", "l", "_", "G", "C", "_", "E", "x", "e", "c", "u", "t", "i", "o", "n", "s">>,
     Average_Page_Movement_For_GC |-> <<"A", "v", "e", "r", "a", "g", "e", "_", "P", "a", "g", "e", "_", "M", "o", "v", "e", "m", "e", "n", "t", "_", "F", "o", "r", "_", "G", "C">>,
     Issued_Flash_Read_CMD |-> <<"I", "s", "s", "u", "e", "d", "_", "F", "l", "a", "s", "h", "_", "R", "e", "a", "d", "_", "C", "M", "D">>,
     Issued_Flash_Read_CMD_For_Mapping |-> <<"I", "s", "s", "u", "e", "d", "_", "F", "l", "a", "s", "h", "_", "R", "e", "a", "d", "_", "C", "M", "D", "_", "F", "o", "r", "_", "M", "a", "p", "p", "i", "n", "g">>,
     Issued_Flash_Program_CMD |-> <<"I", "s", "s", "u", "e", "d", "_", "F", "l", "a", "s", "h", "_", "P", "r", "o", "g", "r", "a", "m", "_", "C", "M", "D">>,
     Issued_Flash_Erase_CMD |-> <<"I", "s", "s", "u", "e", "d", "_", "F", "l", "a", "s", "h", "_", "E", "r", "a", "s", "e", "_", "C", "M", "D">>]

\* the attributes whose value safe_int turns into a count
Counted(attrib) == {n \in DOMAIN attrib : ~IsNull(safe_int(StrV(attrib[n])))}

\* cnt = safe_int(val) of each of them
Counts(attrib) == [n \in Counted(attrib) |-> safe_int(StrV(attrib[n])).v]

\* the sum of the counts of the attributes in names
RECURSIVE SumCounts(_, _)
SumCounts(counts, names) ==
    IF names = {} THEN 0
    ELSE LET n == CHOOSE x \in names : TRUE
         IN  counts[n] + SumCounts(counts, names \ {n})

\* OrdinaryTotal without the `"For_Mapping" not in name` half of the test
OrdinaryTotal_WithMapping(counts, cmd) ==
    SumCounts(counts, {n \in DOMAIN counts : Contains(n, cmd)})

\* total_read += cnt for the names with `cmd in name and "For_Mapping" not in name`
OrdinaryTotal(counts, cmd) ==
    SumCounts(counts, {n \in DOMAIN counts : Contains(n, cmd) /\ ~Contains(n, Lit.For_Mapping)})

\* mapping_read += cnt for the names with `cmd_for_mapping in name`
MappingTotal(counts, cmd_for_mapping) ==
    SumCounts(counts, {n \in DOMAIN counts : Contains(n, cmd_for_mapping)})

\* ratio without the test for a zero denominator
ratio_NoZeroTest(num, den) ==
    IF IsNull(num) \/ IsNull(den) THEN Null
    ELSE FDiv(FloatOfInt(num.v), FloatOfInt(den.v))

ratio(num, den) ==
    IF IsNull(num) \/ IsNull(den) \/ den.v = 0 THEN Null
    ELSE FDiv(FloatOfInt(num.v), FloatOfInt(den.v))

\* the six command totals
FtlTotals(counts) ==
    [ftl_Total_Flash_Read_CMD |-> IntV(OrdinaryTotal(counts, Lit.Read_CMD)),
     ftl_Total_Flash_Program_CMD |-> IntV(OrdinaryTotal(counts, Lit.Program_CMD)),
     ftl_Total_Flash_Erase_CMD |-> IntV(OrdinaryTotal(counts, Lit.Erase_CMD)),
     ftl_Mapping_Read_CMD |-> IntV(MappingTotal(counts, Lit.Read_CMD_For_Mapping)),
     ftl_Mapping_Program_CMD |-> IntV(MappingTotal(counts, Lit.Program_CMD_For_Mapping)),
     ftl_Mapping_Erase_CMD |-> IntV(MappingTotal(counts, Lit.Erase_CMD_For_Mapping))]

\* the mapping-table and garbage-collection attributes read by name
FtlNamed(attrib) ==
    [ftl_Total_CMT_Queries |-> safe_int(AttrGet(attrib, Attr.Total_CMT_Queries)),
     ftl_CMT_Hits |-> safe_int(AttrGet(attrib, Attr.CMT_Hits)),
     ftl_Total_CMT_Read_Queries |-> safe_int(AttrGet(attrib, Attr.Total_CMT_Read_Queries)),
     ftl_CMT_Read_Hits |-> safe_int(AttrGet(attrib, Attr.CMT_Read_Hits)),
     ftl_Total_CMT_Write_Queries |-> safe_int(AttrGet(attrib, Attr.Total_CMT_Write_Queries)),
     ftl_CMT_Write_Hits |-> safe_int(AttrGet(attrib, Attr.CMT_Write_Hits)),
     ftl_Total_GC_Executions |-> safe_int(AttrGet(attrib, Attr.Total_GC_Executions)),
     ftl_Average_Page_Movement_For_GC |->
         safe_float(AttrGet(attrib, Attr.Average_Page_Movement_For_GC))]

\* the fields of out, and the three hit rates from the counters stored in it
WithRates(out) ==
    out
    @@ [ftl_CMT_Hit_Rate |-> ratio(out.ftl_CMT_Hits, out.ftl_Total_CMT_Queries),
        ftl_CMT_Read_Hit_Rate |-> ratio(out.ftl_CMT_Read_Hits, out.ftl_Total_CMT_Read_Queries),
        ftl_CMT_Write_Hit_Rate |->
            ratio(out.ftl_CMT_Write_Hits, out.ftl_Total_CMT_Write_Queries)]

\* the exceptions safe_int raises on the attributes of the node
FtlRaises(attrib) ==
    {safe_int(StrV(attrib[n])) : n \in {m \in DOMAIN attrib : IsRaised(safe_int(StrV(attrib[m])))}}

parse_ftl_metrics(root) ==
    IF IsNull(root.ftl) THEN EmptyMap
    ELSE RaisedOr(FtlRaises(root.ftl.attrib),
                  FtlTotals(Counts(root.ftl.attrib)) @@ WithRates(FtlNamed(root.ftl.attrib)))


\* prefixes = ("User", "GC", "Mapping"), by the key the output fields carry
prefixes == <<"User", "GC", "Mapping">>
PrefixStr(p) == CASE p = "User" -> Lit.User [] p = "GC" -> Lit.GC [] p = "Mapping" -> Lit.Mapping

ZeroStats ==
    [enq |-> Flt(0, 1), deq |-> Flt(0, 1), wait_time_sum |-> Flt(0, 1),
     queue_len_sum |-> Flt(0, 1), queue_entries |-> Flt(0, 1)]

\* QueuePrefix taking the whole Name for the class prefix
QueuePrefix_WholeName(q) == IF "Name" \in DOMAIN q THEN q["Name"] ELSE <<>>

\* the class prefix of a queue node: its Name up to the first underscore
QueuePrefix(q) == SplitFirst(IF "Name" \in DOMAIN q THEN q["Name"] ELSE <<>>, "_")

\* `x or 0` / `x or 0.0`
OrZero(x, zero) == IF IsRaised(x) \/ Truthy(x) THEN x ELSE zero

QEnq(q) == OrZero(safe_int(AttrGet(q, "No_Of_Transactions_Enqueued")), IntV(0))
QDeq(q) == OrZero(safe_int(AttrGet(q, "No_Of_Transactions_Dequeued")), IntV(0))
QAvgWait(q) == OrZero(safe_float(AttrGet(q, "Avg_Transaction_Waiting_Time")), Flt(0, 1))
QAvgLen(q) == OrZero(safe_float(AttrGet(q, "Avg_Queue_Length")), Flt(0, 1))

\* Accumulate with the waiting times summed without their weights
Accumulate_UnweightedWait(s, enq, deq, avg_wait, avg_q_len) ==
    [enq |-> FAdd(s.enq, FloatOfInt(enq.v)),
     deq |-> FAdd(s.deq, FloatOfInt(deq.v)),
     wait_time_sum |-> FAdd(s.wait_time_sum, avg_wait),
     queue_len_sum |-> FAdd(s.queue_len_sum, avg_q_len),
     queue_entries |-> FAdd(s.queue_entries, Flt(1, 1))]

\* the five `s[...] += ...` of the loop body
Accumulate(s, enq, deq, avg_wait, avg_q_len) ==
    [enq |-> FAdd(s.enq, FloatOfInt(enq.v)),
     deq |-> FAdd(s.deq, FloatOfInt(deq.v)),
     wait_time_sum |-> FAdd(s.wait_time_sum, FMul(avg_wait, FloatOfInt(enq.v))),
     queue_len_sum |-> FAdd(s.queue_len_sum, avg_q_len),
     queue_entries |-> FAdd(s.queue_entries, Flt(1, 1))]

\* one pass of the loop body for a queue of a retained class
AddQueue(s, q) == Accumulate(s, QEnq(q), QDeq(q), QAvgWait(q), QAvgLen(q))

\* stats[p] after the queues qs, in document order
RECURSIVE StatsOf(_, _)
StatsOf(p, qs) ==
    IF qs = <<>> THEN ZeroStats
    ELSE LET s == StatsOf(p, SubSeq(qs, 1, Len(qs) - 1))
             q == qs[Len(qs)]
         IN  IF QueuePrefix(q) = PrefixStr(p) THEN AddQueue(s, q) ELSE s

\* x > 0 for a float
FPositive(x) == FSign(x) > 0

Retained(q) == \E i \in 1..Len(prefixes) : QueuePrefix(q) = PrefixStr(prefixes[i])

\* the exceptions safe_int raises on the counts of retained queues
TsuRaises(qs) ==
    {x \in UNION {{QEnq(qs[i]), QDeq(qs[i])} : i \in {j \in 1..Len(qs) : Retained(qs[j])}} :
        IsRaised(x)}

TsuFields(p, s) ==
    LET enq == IF Truthy(s.enq) THEN s.enq ELSE Flt(0, 1)
        entries == IF Truthy(s.queue_entries) THEN s.queue_entries ELSE Flt(0, 1)
    IN  [f \in {"Transactions_Enqueued", "Transactions_Dequeued", "Avg_Waiting_Time",
                "Avg_Queue_Length"} |->
            CASE f = "Transactions_Enqueued" -> IF FPositive(s.enq) THEN s.enq ELSE Null
              [] f = "Transactions_Dequeued" -> IF FPositive(s.deq) THEN s.deq ELSE Null
              [] f = "Avg_Waiting_Time" ->
                    IF FPositive(enq) THEN FDiv(s.wait_time_sum, enq) ELSE Null
              [] f = "Avg_Queue_Length" ->
                    IF FPositive(entries) THEN FDiv(s.queue_len_sum, entries) ELSE Null]

TsuOut(u, g, m) ==
    [tsu_User_Transactions_Enqueued |-> u["Transactions_Enqueued"],
     tsu_User_Transactions_Dequeued |-> u["Transactions_Dequeued"],
     tsu_User_Avg_Waiting_Time |-> u["Avg_Waiting_Time"],
     tsu_User_Avg_Queue_Length |-> u["Avg_Queue_Length"],
     tsu_GC_Transactions_Enqueued |-> g["Transactions_Enqueued"],
     tsu_GC_Transactions_Dequeued |-> g["Transactions_Dequeued"],
     tsu_GC_Avg_Waiting_Time |-> g["Avg_Waiting_Time"],
     tsu_GC_Avg_Queue_Length |-> g["Avg_Queue_Length"],
     tsu_Mapping_Transactions_Enqueued |-> m["Transactions_Enqueued"],
     tsu_Mapping_Transactions_Dequeued |-> m["Transactions_Dequeued"],
     tsu_Mapping_Avg_Waiting_Time |-> m["Avg_Waiting_Time"],
     tsu_Mapping_Avg_Queue_Length |-> m["Avg_Queue_Length"]]

parse_tsu_metrics(root) ==
    IF IsNull(root.tsu) THEN EmptyMap
    ELSE RaisedOr(TsuRaises(root.tsu.qs),
                  TsuOut(TsuFields("User", StatsOf("User", root.tsu.qs)),
                         TsuFields("GC", StatsOf("GC", root.tsu.qs)),
                         TsuFields("Mapping", StatsOf("Mapping", root.tsu.qs))))

POWER_MODEL ==
    [exec |-> Flt(10, 10), dataxfer |-> Flt(8, 10), overlap |-> Flt(11, 10), idle |-> Flt(3, 10)]

\* safe_float(ch.attrib.get(key, "0")) or 0.0
ChipFraction(ch, key) ==
    OrZero(safe_float(StrV(IF key \in DOMAIN ch THEN ch[key] ELSE <<"0">>)), Flt(0, 1))

\* sum(... for ch in chips) of one fraction
RECURSIVE SumFraction(_, _)
SumFraction(chips, key) ==
    IF chips = <<>> THEN Flt(0, 1)
    ELSE FAdd(SumFraction(SubSeq(chips, 1, Len(chips) - 1), key),
              ChipFraction(chips[Len(chips)], key))

PowerIndex(ch) ==
    FAdd(FAdd(FAdd(FMul(ChipFraction(ch, "Fraction_of_Time_in_Execution"), POWER_MODEL.exec),
                   FMul(ChipFraction(ch, "Fraction_of_Time_in_DataXfer"), POWER_MODEL.dataxfer)),
              FMul(ChipFraction(ch, "Fraction_of_Time_in_DataXfer_and_Execution"), POWER_MODEL.overlap)),
         FMul(ChipFraction(ch, "Fraction_of_Time_Idle"), POWER_MODEL.idle))

RECURSIVE TotalPowerIndex(_)
TotalPowerIndex(chips) ==
    IF chips = <<>> THEN Flt(0, 1)
    ELSE FAdd(TotalPowerIndex(SubSeq(chips, 1, Len(chips) - 1)), PowerIndex(chips[Len(chips)]))

\* EnergyPerIO without the `host_reqs > 0` half of the test
EnergyPerIO_TruthyOnly(total_power_index, host_reqs) ==
    IF Truthy(host_reqs)
        THEN FDiv(total_power_index, FloatOfInt(host_reqs.v))
        ELSE Null

\* total_power_index / float(host_reqs) `if host_reqs and host_reqs > 0`
EnergyPerIO(total_power_index, host_reqs) ==
    IF Truthy(host_reqs) /\ host_reqs.v > 0
        THEN FDiv(total_power_index, FloatOfInt(host_reqs.v))
        ELSE Null

\* ChipFields storing the total power index under a key of the host section
ChipFields_HostKey(chips, n, total_power_index, host_reqs) ==
    [chip_Avg_Fraction_Exec |-> FDiv(SumFraction(chips, "Fraction_of_Time_in_Execution"), n),
     chip_Avg_Fraction_DataXfer |-> FDiv(SumFraction(chips, "Fraction_of_Time_in_DataXfer"), n),
     chip_Avg_Fraction_Overlap |->
         FDiv(SumFraction(chips, "Fraction_of_Time_in_DataXfer_and_Execution"), n),
     chip_Avg_Fraction_Idle |-> FDiv(SumFraction(chips, "Fraction_of_Time_Idle"), n),
     host_Request_Count |-> total_power_index,
     energy_Energy_per_IO_Index |-> EnergyPerIO(total_power_index, host_reqs)]

ChipFields(chips, n, total_power_index, host_reqs) ==
    [chip_Avg_Fraction_Exec |-> FDiv(SumFraction(chips, "Fraction_of_Time_in_Execution"), n),
     chip_Avg_Fraction_DataXfer |-> FDiv(SumFraction(chips, "Fraction_of_Time_in_DataXfer"), n),
     chip_Avg_Fraction_Overlap |->
         FDiv(SumFraction(chips, "Fraction_of_Time_in_DataXfer_and_Execution"), n),
     chip_Avg_Fraction_Idle |-> FDiv(SumFraction(chips, "Fraction_of_Time_Idle"), n),
     energy_Total_Chip_Power_Index |-> total_power_index,
     energy_Energy_per_IO_Index |-> EnergyPerIO(total_power_index, host_reqs)]

parse_chip_metrics_and_energy(root, host_reqs) ==
    IF root.chips = <<>> THEN EmptyMap
    ELSE ChipFields(root.chips, Flt(Len(root.chips), 1), TotalPowerIndex(root.chips), host_reqs)

----------------------------------------------------------------------------
(* summarize_file.  A file's content is either unparseable, with the        *)
(* message of the exception ET.parse raises, or the parsed document.        *)

Unparseable(msg) == [ok |-> FALSE, err |-> msg]
Document(host, ftl, tsu, chips) ==
    [ok |-> TRUE, host |-> host, ftl |-> ftl, tsu |-> tsu, chips |-> chips]

\* host.get("host_Request_Count", None)
HostReqCnt(host) ==
    IF "host_Request_Count" \in DOMAIN host THEN host["host_Request_Count"] ELSE Null

\* row.update(m): a key of m replaces the same key of row; an exception
\* raised while row or m is computed leaves summarize_file
Updated(row, m) == IF IsRaised(row) THEN row ELSE IF IsRaised(m) THEN m ELSE m @@ row

\* the four extractors in turn, the last given the host section's request count
Extracted(info, host, root) ==
    Updated(Updated(Updated(Updated(info, host), parse_ftl_metrics(root)),
                    parse_tsu_metrics(root)),
            parse_chip_metrics_and_energy(root, HostReqCnt(host)))

\* Summarized keeping only the error message of an unparseable file
Summarized_ErrorOnly(info, content) ==
    IF IsRaised(info) THEN info
    ELSE IF ~content.ok THEN "parse_error" :> StrV(content.err)
    ELSE Extracted(info, parse_host_metrics(content), content)

\* except Exception as e: info["parse_error"] = str(e); return info
Summarized(info, content) ==
    IF IsRaised(info) THEN info
    ELSE IF ~content.ok THEN ("parse_error" :> StrV(content.err)) @@ info
    ELSE Extracted(info, parse_host_metrics(content), content)

summarize_file(path, content) == Summarized(parse_experiment_name(path), content)

----------------------------------------------------------------------------
(* The three specifications share the variables; each leaves the variables  *)
(* of the other two at rest.                                                *)

NameIdle == nm_pc = "idle" /\ nm_name = <<>> /\ nm_info = Null
DocIdle == d_pc = "idle" /\ d_doc = Null /\ d_row = Null
MainIdle ==
    /\ pc = "idle" /\ fs = <<>> /\ listing = <<>> /\ xml_files = <<>> /\ idx = 0
    /\ rows = <<>> /\ header = <<>> /\ out_open = FALSE /\ out_lines = <<>> /\ fatal = Null

----------------------------------------------------------------------------
(* SpecName: parse_experiment_name applied to each explored file name.      *)

\* the tokens of the explored file names
Tok ==
    [run |-> <<"r", "u", "n">>,
     cache1G |-> <<"c", "a", "c", "h", "e", "1", "G">>,
     ch4 |-> <<"c", "h", "4">>,
     chX |-> <<"c", "h", "X">>,
     ch4x |-> <<"c", "h", "4", "x">>,
     chip2 |-> <<"c", "h", "i", "p", "2">>,
     chipy |-> <<"c", "h", "i", "p", "y">>,
     ioqd8 |-> <<"i", "o", "q", "d", "8">>,
     ioqdx |-> <<"i", "o", "q", "d", "x">>,
     tpccx |-> <<"t", "p", "c", "c", "x">>,
     b4k |-> <<"4", "k">>,
     rr |-> <<"r", "r">>]

\* the token sequences of length n: head tokens first, kind tokens at the
\* axis positions, tail tokens after them
RECURSIVE TokenSeqs(_)
TokenSeqs(n) ==
    IF n = 1 THEN {<<h>> : h \in {Lit.wl, Tok.run}}
    ELSE {Append(ts, t) : ts \in TokenSeqs(n - 1),
                          t \in IF n <= 3
                                   THEN {Lit.cache, Tok.cache1G, Tok.ch4, Tok.chX, Tok.ch4x,
                                         Tok.chip2, Tok.ioqd8, Tok.ioqdx, Lit.tpcc, Tok.tpccx,
                                         Tok.b4k, <<>>}
                                   ELSE {Tok.chip2, Tok.chipy, Tok.b4k, Tok.rr}}

\* the names of at most max tokens
BaseNames(max) == UNION {{Join(ts, "_") : ts \in TokenSeqs(n)} : n \in 1..max}

\* a bare name, a path ending in .xml, a name ending in .XML
NameInputs(max) ==
    BaseNames(max) \cup {<<"d", "/">> \o b \o Lit.dot_xml : b \in BaseNames(max)}
                   \cup {b \o <<".", "X", "M", "L">> : b \in BaseNames(max)}

InitName == nm_pc = "start" /\ nm_name \in NameInputs(MaxTokens) /\ nm_info = Null /\ DocIdle /\ MainIdle

ParseName ==
    /\ nm_pc = "start"
    /\ nm_info' = parse_experiment_name(nm_name)
    /\ nm_pc' = "done"
    /\ UNCHANGED <<nm_name, docVars, mainVars>>

NextName == ParseName

SpecName == InitName /\ [][NextName]_vars

----------------------------------------------------------------------------
(* Claims about parse_experiment_name. *)

NameParts(name) == Split(StripXml(Basename(name)), "_")

\* 'wl', then a token that starts with cache, ch or ioqd, or the token tpcc
MatchesGrammar(name) ==
    LET parts == NameParts(name) IN
    /\ Len(parts) >= 2
    /\ parts[1] = Lit.wl
    /\ \/ StartsWith(parts[2], Lit.cache)
       \/ StartsWith(parts[2], Lit.ch)
       \/ StartsWith(parts[2], Lit.ioqd)
       \/ parts[2] = Lit.tpcc

AxisFields == {"cache_size", "channels", "chips_per_channel", "io_queue_depth", "tpcc_variant"}

S_unknown == <<"u", "n", "k", "n", "o", "w", "n">>

NameDone == nm_pc = "done"

Categories == {StrV(Lit.cache), StrV(Lit.ch_chip), StrV(Lit.ioqd), StrV(Lit.tpcc)}

\* the axis group the identity selects: category, or tpcc_variant under tpcc
Selected(info) == IF info.category = StrV(Lit.tpcc) THEN info.tpcc_variant ELSE info.category

CachePopulated(info) == info.cache_size # Null
ChPopulated(info) == info.channels # Null \/ info.chips_per_channel # Null
IoqdPopulated(info) == info.io_queue_depth # Null

\* C3 as stated: with a category among cache, ch_chip, ioqd, tpcc, exactly
\* one axis group is populated, the one category (or tpcc_variant) selects,
\* and every axis field outside it is null.
C3_ExactlyOneGroup ==
    (NameDone /\ ~IsRaised(nm_info) /\ nm_info.category \in Categories) =>
        /\ Selected(nm_info) \in {StrV(Lit.cache), StrV(Lit.ch_chip), StrV(Lit.ioqd)}
        /\ CachePopulated(nm_info) <=> Selected(nm_info) = StrV(Lit.cache)
        /\ ChPopulated(nm_info) <=> Selected(nm_info) = StrV(Lit.ch_chip)
        /\ IoqdPopulated(nm_info) <=> Selected(nm_info) = StrV(Lit.ioqd)

\* a digit follows the prefix in the token at position i
DigitAfter(parts, i, prefix) ==
    /\ Len(parts) >= i
    /\ StartsWith(parts[i], prefix)
    /\ Len(parts[i]) > Len(prefix)
    /\ IsDigit(parts[i][Len(prefix) + 1])

\* C3 as amended: with a category among cache, ch_chip, ioqd, tpcc, at most
\* one axis group is populated and only the one category (or tpcc_variant)
\* selects: every axis field outside it is null.  The selected group is
\* populated exactly when its token carries a value: cache_size always
\* (possibly the empty string), channels when a digit follows 'ch',
\* chips_per_channel when a digit follows 'chip' in the next token,
\* io_queue_depth when a digit follows 'ioqd'; 'wl_chX' and 'wl_tpcc'
\* populate no group.
C3_AtMostOneGroup ==
    (NameDone /\ ~IsRaised(nm_info) /\ nm_info.category \in Categories) =>
        LET parts == NameParts(nm_name)
            ax == IF nm_info.category = StrV(Lit.tpcc) THEN 3 ELSE 2
        IN  /\ CachePopulated(nm_info) <=> Selected(nm_info) = StrV(Lit.cache)
            /\ ChPopulated(nm_info) => Selected(nm_info) = StrV(Lit.ch_chip)
            /\ IoqdPopulated(nm_info) => Selected(nm_info) = StrV(Lit.ioqd)
            /\ Selected(nm_info) = StrV(Lit.ch_chip) =>
                   /\ nm_info.channels # Null <=> DigitAfter(parts, ax, Lit.ch)
                   /\ nm_info.chips_per_channel # Null <=> DigitAfter(parts, ax + 1, Lit.chip)
            /\ Selected(nm_info) = StrV(Lit.ioqd) =>
                   (nm_info.io_queue_depth # Null <=> DigitAfter(parts, ax, Lit.ioqd))

\* a TPCC name whose variant selects the channel group and fills both of its fields
C3_Witness ==
    /\ NameDone
    /\ ~IsRaised(nm_info)
    /\ nm_info.category = StrV(Lit.tpcc)
    /\ nm_info.tpcc_variant = StrV(Lit.ch_chip)
    /\ nm_info.channels = IntV(4)
    /\ nm_info.chips_per_channel = IntV(2)

\* the token at position i, Null when the name has fewer tokens
TokenAt(parts, i) == IF Len(parts) >= i THEN StrV(parts[i]) ELSE Null

\* the position of the first token after the axis tokens of a synthetic name:
\* after the chip<M> token when the channel token is followed by one
AfterAxis(parts) ==
    IF /\ ~StartsWith(parts[2], Lit.cache)
       /\ StartsWith(parts[2], Lit.ch)
       /\ Len(parts) >= 3
       /\ StartsWith(parts[3], Lit.chip)
        THEN 4
        ELSE 3

\* C13 as stated: for the categories cache, ch_chip and ioqd, block_size and
\* access_pattern are the first and second token after the axis tokens
\* (cache<SIZE>, ioqd<N>, or ch<N> with the chip<M> token when it is there),
\* each set when its token exists and null otherwise.
C13_TokensAfterAxis ==
    (NameDone /\ ~IsRaised(nm_info)
        /\ nm_info.category \in {StrV(Lit.cache), StrV(Lit.ch_chip), StrV(Lit.ioqd)}) =>
        /\ nm_info.block_size = TokenAt(NameParts(nm_name), AfterAxis(NameParts(nm_name)))
        /\ nm_info.access_pattern =
               TokenAt(NameParts(nm_name), AfterAxis(NameParts(nm_name)) + 1)

\* the position of the axis token: the token after 'wl', or after 'tpcc'
AxisAt(info) == IF info.category = StrV(Lit.tpcc) THEN 3 ELSE 2

\* the text after the prefix in the token at position i
Remainder(parts, i, prefix) == DropPrefix(parts[i], Len(prefix))

\* the integer a token at position i carries when all that follows its prefix
\* is a digit string, Null otherwise
WholeInt(parts, i, prefix) ==
    IF Len(parts) >= i /\ StartsWith(parts[i], prefix) /\ IsDigits(Remainder(parts, i, prefix))
        THEN IntV(DigitsValue(Remainder(parts, i, prefix)))
        ELSE Null

\* the integer of the digits that follow the prefix in the token at position
\* i, Null when no digit follows it
LeadingInt(parts, i, prefix) ==
    IF DigitAfter(parts, i, prefix)
        THEN IntV(DigitsValue(DigitRun(Remainder(parts, i, prefix))))
        ELSE Null

\* C14 as stated: parse_experiment_name raises nothing, and channels,
\* chips_per_channel and io_queue_depth are the integer after 'ch', 'chip'
\* and 'ioqd' when the whole remainder of the token is an integer, and null
\* otherwise ('ch4x' leaves channels null).
C14_WholeRemainder ==
    NameDone =>
        /\ ~IsRaised(nm_info)
        /\ Selected(nm_info) = StrV(Lit.ch_chip) =>
               /\ nm_info.channels = WholeInt(NameParts(nm_name), AxisAt(nm_info), Lit.ch)
               /\ nm_info.chips_per_channel =
                      WholeInt(NameParts(nm_name), AxisAt(nm_info) + 1, Lit.chip)
        /\ Selected(nm_info) = StrV(Lit.ioqd) =>
               nm_info.io_queue_depth = WholeInt(NameParts(nm_name), AxisAt(nm_info), Lit.ioqd)

\* C14 as amended: parse_experiment_name raises nothing, and channels,
\* chips_per_channel and io_queue_depth are the integer of the digits that
\* directly follow 'ch', 'chip' and 'ioqd', whatever comes after them ('ch4x'
\* gives channels 4), and null when no digit follows the prefix.
C14_LeadingDigits ==
    NameDone =>
        /\ ~IsRaised(nm_info)
        /\ Selected(nm_info) = StrV(Lit.ch_chip) =>
               /\ nm_info.channels = LeadingInt(NameParts(nm_name), AxisAt(nm_info), Lit.ch)
               /\ nm_info.chips_per_channel =
                      LeadingInt(NameParts(nm_name), AxisAt(nm_info) + 1, Lit.chip)
        /\ Selected(nm_info) = StrV(Lit.ioqd) =>
               nm_info.io_queue_depth = LeadingInt(NameParts(nm_name), AxisAt(nm_info), Lit.ioqd)

\* 'ch4x' as the axis token of a channel name, and 4 channels
C14_Witness ==
    /\ NameDone
    /\ ~IsRaised(nm_info)
    /\ Len(NameParts(nm_name)) >= 2
    /\ NameParts(nm_name)[1] = Lit.wl
    /\ NameParts(nm_name)[2] = Tok.ch4x
    /\ nm_info.category = StrV(Lit.ch_chip)
    /\ nm_info.channels = IntV(4)

\* the tokens of a TPCC name without its 'tpcc' token
WithoutTpcc(parts) == <<parts[1]>> \o SubSeq(parts, 3, Len(parts))

\* the sub-grammar the token after 'tpcc' matches, Null when it matches none
SubGrammar(parts) ==
    IF Len(parts) < 3 THEN Null
    ELSE IF StartsWith(parts[3], Lit.cache) THEN StrV(Lit.cache)
    ELSE IF StartsWith(parts[3], Lit.ch) THEN StrV(Lit.ch_chip)
    ELSE IF StartsWith(parts[3], Lit.ioqd) THEN StrV(Lit.ioqd)
    ELSE Null

\* the TPCC identity against the identity of the same name without 'tpcc'
TpccRule(info, parts, synthetic) ==
    /\ info.category = StrV(Lit.tpcc)
    /\ info.access_pattern = StrV(Lit.tpcc)
    /\ info.block_size = Null
    /\ info.tpcc_variant = SubGrammar(parts)
    /\ info.tpcc_variant # Null => info.tpcc_variant = synthetic.category
    /\ \A f \in {"cache_size", "channels", "chips_per_channel", "io_queue_depth"} :
           info[f] = IF info.tpcc_variant = Null THEN Null ELSE synthetic[f]

----------------------------------------------------------------------------
(* SpecDoc: summarize_file applied to each explored document.               *)

HostNode(ch) == [k |-> "node", ch |-> ch]
FtlNode(attrib) == [k |-> "node", attrib |-> attrib]
TsuNode(qs) == [k |-> "node", qs |-> qs]

\* the maps from at most n of the keys to the values
BoundedMaps(keys, values, n) ==
    UNION {[S -> values] : S \in {T \in SUBSET keys : Cardinality(T) <= n}}

RECURSIVE SeqsUpTo(_, _)
SeqsUpTo(S, n) ==
    IF n = 0 THEN {<<>>}
    ELSE SeqsUpTo(S, n - 1) \cup {Append(q, x) : q \in {r \in SeqsUpTo(S, n - 1) : Len(r) = n - 1}, x \in S}

\* the texts of the explored elements and attributes
Txt ==
    [x0 |-> <<"0">>,
     x3 |-> <<"3">>,
     x4 |-> <<"4">>,
     xx |-> <<"x">>,
     xinf |-> <<"i", "n", "f">>,
     x10 |-> <<"1", "0">>,
     x30 |-> <<"3", "0">>,
     x100 |-> <<"1", "0", "0">>,
     xneg5 |-> <<"-", "5">>,
     x2p5 |-> <<" ", "2", ".", "5", " ">>,
     x5p0 |-> <<"5", ".", "0">>,
     x1p0 |-> <<"1", ".", "0">>,
     x0p5 |-> <<"0", ".", "5">>,
     x0p25 |-> <<".", "2", "5">>,
     x50 |-> <<"5", "0">>,
     xnan |-> <<"n", "a", "n">>,
     x2MiB |-> <<"2", "0", "9", "7", "1", "5", "2">>,
     x1500 |-> <<"1", "5", "0", "0">>]

\* the host node: absent, or with a Request_Count child (empty, or with a text),
\* a Bandwidth child and an End_to_End_Request_Delay child
HostInputs ==
    {Null} \cup
    {HostNode(rc @@ bw @@ e2e) :
        rc \in {EmptyMap} \cup {"Request_Count" :> t :
                    t \in {Null, StrV(Txt.x0), StrV(Txt.x100), StrV(Txt.xneg5), StrV(Txt.xx),
                           StrV(Txt.xinf), StrV(Txt.xnan), StrV(Txt.x2p5)}},
        bw \in {EmptyMap, "Bandwidth" :> StrV(Txt.x2MiB), "Bandwidth" :> StrV(Txt.xinf)},
        e2e \in {EmptyMap, "End_to_End_Request_Delay" :> StrV(Txt.x1500)}}


\* the FTL node: absent, or with at most n of the counted attributes
FtlInputs(n) ==
    {Null, FtlNode(Attr.Total_GC_Executions :> Txt.xinf),
     FtlNode((Attr.Total_GC_Executions :> Txt.x2p5) @@ (Attr.Average_Page_Movement_For_GC :> Txt.x2p5)),
     FtlNode((Attr.Issued_Flash_Read_CMD :> Txt.x2p5)
             @@ (Attr.Issued_Flash_Read_CMD_For_Mapping :> Txt.x3)
             @@ (Attr.Issued_Flash_Program_CMD :> Txt.x4)),
     FtlNode((Attr.Issued_Flash_Read_CMD_For_Mapping :> Txt.x2p5)
             @@ (Attr.Issued_Flash_Erase_CMD :> Txt.xnan))}
    \cup {FtlNode(a) : a \in BoundedMaps({Attr.Issued_Flash_Read_CMD,
                                          Attr.Issued_Flash_Read_CMD_For_Mapping,
                                          Attr.Issued_Flash_Program_CMD,
                                          Attr.Issued_Flash_Erase_CMD, Attr.Total_CMT_Queries,
                                          Attr.CMT_Hits, Attr.Total_CMT_Read_Queries,
                                          Attr.CMT_Read_Hits, Attr.Total_CMT_Write_Queries,
                                          Attr.CMT_Write_Hits},
                                         {Txt.x0, Txt.x3, Txt.x4, Txt.xx}, n)}

\* the Name attributes of the explored queues
QName ==
    [User_A |-> <<"U", "s", "e", "r", "_", "A">>,
     User_B |-> <<"U", "s", "e", "r", "_", "B">>,
     GC_Q |-> <<"G", "C", "_", "Q">>,
     Other_Q |-> <<"O", "t", "h", "e", "r", "_", "Q">>,
     Userland |-> <<"U", "s", "e", "r", "l", "a", "n", "d">>]

Queue(name, enq, wait, len) ==
    ("Name" :> name) @@ ("No_Of_Transactions_Enqueued" :> enq)
    @@ ("No_Of_Transactions_Dequeued" :> enq)
    @@ ("Avg_Transaction_Waiting_Time" :> wait) @@ ("Avg_Queue_Length" :> len)

\* the queue without the attributes in gone
Without(q, gone) == [a \in DOMAIN q \ gone |-> q[a]]

QueueInputs ==
    {Queue(QName.User_A, Txt.x10, Txt.x5p0, Txt.x3), Queue(QName.User_B, Txt.x30, Txt.x1p0, Txt.x0p5),
     Queue(QName.User_B, Txt.x0, Txt.x5p0, Txt.x3), Queue(QName.User_A, Txt.xinf, Txt.x1p0, Txt.x3),
     Queue(QName.User_A, Txt.x10, Txt.xx, Txt.xnan),
     Queue(QName.GC_Q, Txt.x10, Txt.x1p0, Txt.x0p5), Queue(Lit.GC, Txt.x30, Txt.x5p0, Txt.x0),
     Queue(Lit.Mapping \o <<"_", "M">>, Txt.x3, Txt.x0p5, Txt.x0p25),
     Queue(QName.Other_Q, Txt.x10, Txt.x5p0, Txt.x3), Queue(QName.Userland, Txt.xinf, Txt.x5p0, Txt.x3),
     Without(Queue(QName.User_A, Txt.x10, Txt.x5p0, Txt.x3), {"Avg_Transaction_Waiting_Time"}),
     Without(Queue(QName.User_B, Txt.x30, Txt.x1p0, Txt.x0p5), {"Avg_Queue_Length"}),
     Without(Queue(QName.GC_Q, Txt.x10, Txt.x1p0, Txt.x0p5), {"No_Of_Transactions_Enqueued"}),
     Without(Queue(QName.User_A, Txt.x10, Txt.x5p0, Txt.x3), {"No_Of_Transactions_Dequeued"}),
     Without(Queue(QName.User_A, Txt.x10, Txt.x5p0, Txt.x3), {"Name"}),
     EmptyMap}

TsuInputs(n) == {Null} \cup {TsuNode(qs) : qs \in SeqsUpTo(QueueInputs, n)}

Chip(exec, data, overlap, idle) ==
    ("Fraction_of_Time_in_Execution" :> exec) @@ ("Fraction_of_Time_in_DataXfer" :> data)
    @@ ("Fraction_of_Time_in_DataXfer_and_Execution" :> overlap)
    @@ ("Fraction_of_Time_Idle" :> idle)

ChipInputs ==
    {Chip(Txt.x0p5, Txt.x0p25, Txt.x0, Txt.x0p25), Chip(Txt.x50, Txt.x0, Txt.x0, Txt.x0),
     Without(Chip(Txt.x0p5, Txt.x0p25, Txt.x0, Txt.x0p25), {"Fraction_of_Time_Idle"}),
     Chip(Txt.xx, Txt.x0p25, Txt.xinf, Txt.x0p5), EmptyMap}

\* Documents that vary the host node and the chips, the FTL node, or the TSU
\* node, and documents with all four sections.
DocInputs(queues, chips, attrs) ==
    {Document(h, Null, Null, c) : h \in HostInputs, c \in SeqsUpTo(ChipInputs, chips)}
    \cup {Document(Null, f, Null, <<>>) : f \in FtlInputs(attrs)}
    \cup {Document(HostNode("Request_Count" :> StrV(Txt.x100)), Null, t, <<>>) : t \in TsuInputs(queues)}
    \cup {Document(HostNode(("Request_Count" :> StrV(Txt.x100)) @@ ("Bandwidth" :> StrV(Txt.x2MiB))),
                    FtlNode((Attr.Issued_Flash_Read_CMD :> Txt.x3) @@ (Attr.CMT_Hits :> Txt.x4)),
                    TsuNode(<<q>>), <<c>>) : q \in QueueInputs, c \in ChipInputs}
    \cup {Unparseable(<<"s", "y", "n", "t", "a", "x">>)}

DocPath == <<"i", "n", "/", "w", "l", "_", "c", "a", "c", "h", "e", "1", "G", ".", "x", "m", "l">>

InitDoc == d_pc = "start" /\ d_doc \in DocInputs(MaxQueues, MaxChips, MaxAttrs) /\ d_row = Null /\ NameIdle /\ MainIdle

Summarize ==
    /\ d_pc = "start"
    /\ d_row' = summarize_file(DocPath, d_doc)
    /\ d_pc' = "done"
    /\ UNCHANGED <<d_doc, nameVars, mainVars>>

NextDoc == Summarize

SpecDoc == InitDoc /\ [][NextDoc]_vars

----------------------------------------------------------------------------
(* Claims about the extractors, on the record summarize_file returns.       *)

DocDone == d_pc = "done" /\ d_doc.ok /\ ~IsRaised(d_row)

\* the queues of the document whose class prefix is p
ClassQueues(p) ==
    IF IsNull(d_doc.tsu) THEN {}
    ELSE {d_doc.tsu.qs[i] : i \in {j \in 1..Len(d_doc.tsu.qs) :
                                     QueuePrefix(d_doc.tsu.qs[j]) = PrefixStr(p)}}

FtlAttrib == IF IsNull(d_doc.ftl) THEN EmptyMap ELSE d_doc.ftl.attrib

HostChildren == IF IsNull(d_doc.host) THEN EmptyMap ELSE d_doc.host.ch

\* the value of a field of the record, Null when the record lacks the field
Field(row, key) == IF key \in DOMAIN row THEN row[key] ELSE Null

Scopes ==
    {<<Attr.CMT_Hits, Attr.Total_CMT_Queries, "ftl_CMT_Hits", "ftl_Total_CMT_Queries", "ftl_CMT_Hit_Rate">>,
     <<Attr.CMT_Read_Hits, Attr.Total_CMT_Read_Queries, "ftl_CMT_Read_Hits",
       "ftl_Total_CMT_Read_Queries", "ftl_CMT_Read_Hit_Rate">>,
     <<Attr.CMT_Write_Hits, Attr.Total_CMT_Write_Queries, "ftl_CMT_Write_Hits",
       "ftl_Total_CMT_Write_Queries", "ftl_CMT_Write_Hit_Rate">>}

\* C8 as stated: a derived quotient is null whenever one of its operand
\* attributes is absent from the document: a hit rate without its hits or
\* queries attribute, a class's average waiting time with a queue that lacks
\* Avg_Transaction_Waiting_Time or No_Of_Transactions_Enqueued, its average
\* queue length with a queue that lacks Avg_Queue_Length, the energy per IO
\* without a Request_Count; no zero stands in for a missing operand.
C8_QuotientsNeedOperands ==
    DocDone =>
        /\ \A sc \in Scopes :
               (sc[1] \notin DOMAIN FtlAttrib \/ sc[2] \notin DOMAIN FtlAttrib)
                   => Field(d_row, sc[5]) = Null
        /\ \A i \in 1..Len(prefixes) :
               LET p == prefixes[i] IN
               /\ (\E q \in ClassQueues(p) :
                       \/ "Avg_Transaction_Waiting_Time" \notin DOMAIN q
                       \/ "No_Of_Transactions_Enqueued" \notin DOMAIN q)
                     => Field(d_row, "tsu_" \o p \o "_Avg_Waiting_Time") = Null
               /\ (\E q \in ClassQueues(p) : "Avg_Queue_Length" \notin DOMAIN q)
                     => Field(d_row, "tsu_" \o p \o "_Avg_Queue_Length") = Null
        /\ "Request_Count" \notin DOMAIN HostChildren
               => Field(d_row, "energy_Energy_per_IO_Index") = Null

\* C9 as stated: when the FTL node carries no attribute of a command class,
\* the total of that class is null, not zero.
C9_AbsentTotalsAreNull ==
    (DocDone /\ ~IsNull(d_doc.ftl)) =>
        /\ \A c \in {<<Lit.Read_CMD, "ftl_Total_Flash_Read_CMD">>,
                      <<Lit.Program_CMD, "ftl_Total_Flash_Program_CMD">>,
                      <<Lit.Erase_CMD, "ftl_Total_Flash_Erase_CMD">>} :
               (~\E n \in DOMAIN FtlAttrib : Contains(n, c[1]) /\ ~Contains(n, Lit.For_Mapping))
                   => d_row[c[2]] = Null
        /\ \A c \in {<<Lit.Read_CMD_For_Mapping, "ftl_Mapping_Read_CMD">>,
                      <<Lit.Program_CMD_For_Mapping, "ftl_Mapping_Program_CMD">>,
                      <<Lit.Erase_CMD_For_Mapping, "ftl_Mapping_Erase_CMD">>} :
               (~\E n \in DOMAIN FtlAttrib : Contains(n, c[1])) => d_row[c[2]] = Null

\* C10: with an FTL node, for each CMT scope the hits and queries fields are
\* present in the record only if their attributes are in the document, the
\* hit rate is hits / queries when both fields are non-null and queries is not
\* zero, and null otherwise; no division by zero is evaluated.
C10_HitRate ==
    /\ d_pc = "done" => d_row # Raised("ZeroDivisionError")
    /\ (DocDone /\ ~IsNull(d_doc.ftl)) =>
           \A sc \in Scopes :
               LET hits == d_row[sc[3]]
                   queries == d_row[sc[4]]
               IN  /\ hits # Null => sc[1] \in DOMAIN FtlAttrib
                   /\ queries # Null => sc[2] \in DOMAIN FtlAttrib
                   /\ d_row[sc[5]] =
                         IF hits # Null /\ queries # Null /\ queries.v # 0
                             THEN Flt(hits.v, queries.v)
                             ELSE Null

\* a document with zero CMT queries and zero hits, and a null hit rate
C10_Witness ==
    /\ DocDone
    /\ ~IsNull(d_doc.ftl)
    /\ Attr.Total_CMT_Queries \in DOMAIN FtlAttrib
    /\ Attr.CMT_Hits \in DOMAIN FtlAttrib
    /\ d_row["ftl_Total_CMT_Queries"] = IntV(0)
    /\ d_row["ftl_CMT_Hits"] = IntV(0)
    /\ d_row["ftl_CMT_Hit_Rate"] = Null

\* the integer safe_int reads from the host node's Request_Count, Null when
\* the node or the child is missing or the text is no number
RequestCount ==
    IF "Request_Count" \in DOMAIN HostChildren
        THEN safe_int(HostChildren["Request_Count"])
        ELSE Null

\* C11: in the record summarize_file returns, energy_Energy_per_IO_Index is
\* null (or absent) whenever the host request count is absent (no host node,
\* no Request_Count, or a text that is no number), zero or negative; whenever
\* the count is positive and the document has a chip node, it equals
\* energy_Total_Chip_Power_Index / host_Request_Count.
C11_EnergyPerIO ==
    DocDone =>
        /\ (IsNull(RequestCount) \/ RequestCount.v <= 0)
               => Field(d_row, "energy_Energy_per_IO_Index") = Null
        /\ (~IsNull(RequestCount) /\ RequestCount.v > 0 /\ d_doc.chips # <<>>)
               => /\ d_row["host_Request_Count"] = RequestCount
                  /\ d_row["energy_Energy_per_IO_Index"] =
                         FDiv(d_row["energy_Total_Chip_Power_Index"],
                              FloatOfInt(d_row["host_Request_Count"].v))

\* a request count of 100 and a total power index of 50.0 give 0.5
C11_Witness ==
    /\ DocDone
    /\ RequestCount = IntV(100)
    /\ Len(d_doc.chips) = 1
    /\ d_row["energy_Total_Chip_Power_Index"] = Flt(50, 1)
    /\ d_row["energy_Energy_per_IO_Index"] = Flt(1, 2)

\* the queues of the document whose class prefix is p, in document order
ClassSeq(p) ==
    IF IsNull(d_doc.tsu) THEN <<>>
    ELSE SelectSeq(d_doc.tsu.qs, LAMBDA q : QueuePrefix(q) = PrefixStr(p))

\* enqueued_i and avg_wait_i: the numbers a queue's attributes carry
Enqueued(q) == safe_int(AttrGet(q, "No_Of_Transactions_Enqueued"))
AvgWait(q) == safe_float(AttrGet(q, "Avg_Transaction_Waiting_Time"))

\* sum(enqueued_i) over the queues that carry a count
RECURSIVE EnqueuedSum(_)
EnqueuedSum(qs) ==
    IF qs = <<>> THEN 0
    ELSE EnqueuedSum(Tail(qs)) + (IF IsNull(Enqueued(Head(qs))) THEN 0 ELSE Enqueued(Head(qs)).v)

\* sum(avg_wait_i * enqueued_i) over queues that all carry both numbers
RECURSIVE WeightedWaitSum(_)
WeightedWaitSum(qs) ==
    IF qs = <<>> THEN Flt(0, 1)
    ELSE FAdd(FMul(AvgWait(Head(qs)), FloatOfInt(Enqueued(Head(qs)).v)),
              WeightedWaitSum(Tail(qs)))

WaitRule(p, qs) ==
    /\ d_row["tsu_" \o p \o "_Avg_Waiting_Time"] # Null <=> EnqueuedSum(qs) > 0
    /\ (/\ EnqueuedSum(qs) > 0
        /\ \A i \in 1..Len(qs) : ~IsNull(Enqueued(qs[i])) /\ ~IsNull(AvgWait(qs[i])))
           => d_row["tsu_" \o p \o "_Avg_Waiting_Time"] =
                  FDiv(WeightedWaitSum(qs), FloatOfInt(EnqueuedSum(qs)))

\* C12: with a TSU node, tsu_<class>_Avg_Waiting_Time is non-null exactly
\* when the sum of the enqueued counts of the class's queues is positive, and
\* then, the queues carrying their counts and waiting times, it equals
\* sum(avg_wait_i * enqueued_i) / sum(enqueued_i).
C12_WeightedWaitingTime ==
    (DocDone /\ ~IsNull(d_doc.tsu)) =>
        \A i \in 1..Len(prefixes) : WaitRule(prefixes[i], ClassSeq(prefixes[i]))

\* User_A and User_B with 10 and 30 enqueued and waits 5.0 and 1.0 give 2.0
C12_Witness ==
    /\ DocDone
    /\ ~IsNull(d_doc.tsu)
    /\ d_doc.tsu.qs = <<Queue(QName.User_A, Txt.x10, Txt.x5p0, Txt.x3),
                        Queue(QName.User_B, Txt.x30, Txt.x1p0, Txt.x0p5)>>
    /\ d_row["tsu_User_Avg_Waiting_Time"] = Flt(2, 1)
    /\ d_row["tsu_GC_Avg_Waiting_Time"] = Null

\* the three command classes: the substring of an ordinary attribute's name,
\* that of a mapping attribute's name, and the fields of their totals
Commands ==
    {[cmd |-> Lit.Read_CMD, for_mapping |-> Lit.Read_CMD_For_Mapping,
      total |-> "ftl_Total_Flash_Read_CMD", mapping |-> "ftl_Mapping_Read_CMD"],
     [cmd |-> Lit.Program_CMD, for_mapping |-> Lit.Program_CMD_For_Mapping,
      total |-> "ftl_Total_Flash_Program_CMD", mapping |-> "ftl_Mapping_Program_CMD"],
     [cmd |-> Lit.Erase_CMD, for_mapping |-> Lit.Erase_CMD_For_Mapping,
      total |-> "ftl_Total_Flash_Erase_CMD", mapping |-> "ftl_Mapping_Erase_CMD"]}

\* what an attribute value adds to a total: with whole, the integer the text
\* spells and nothing for any other text; without, the integer safe_int
\* makes of it and nothing when safe_int makes none
Contribution(t, whole) ==
    IF whole
        THEN IF IsDigits(Unsigned(Strip(t))) THEN PyInt(Strip(t)).v ELSE 0
        ELSE IF IsNull(safe_int(StrV(t))) THEN 0 ELSE safe_int(StrV(t)).v

RECURSIVE ContributionSum(_, _, _)
ContributionSum(attrib, names, whole) ==
    IF names = {} THEN 0
    ELSE Contribution(attrib[CHOOSE n \in names : TRUE], whole)
         + ContributionSum(attrib, names \ {CHOOSE n \in names : TRUE}, whole)

\* each ordinary total is the sum over the attributes named with the command
\* and without For_Mapping, each mapping total the sum over those named with
\* the command's For_Mapping form
TotalsRule(attrib, whole) ==
    \A c \in Commands :
        /\ d_row[c.total] =
               IntV(ContributionSum(attrib,
                                    {n \in DOMAIN attrib :
                                        Contains(n, c.cmd) /\ ~Contains(n, Lit.For_Mapping)},
                                    whole))
        /\ d_row[c.mapping] =
               IntV(ContributionSum(attrib,
                                    {n \in DOMAIN attrib : Contains(n, c.for_mapping)},
                                    whole))

\* C16 as stated: an attribute named with C_CMD and without For_Mapping is
\* added to the ordinary total of C only, one named with C_CMD_For_Mapping to
\* the mapping total of C only, and an attribute whose value is not an
\* integer adds nothing to any total.
C16_IntegerValuedOnly ==
    (DocDone /\ ~IsNull(d_doc.ftl)) => TotalsRule(FtlAttrib, TRUE)

\* C16 as amended: the same classification, over the attributes safe_int
\* turns into a number: an integer text counts as itself, a decimal text
\* counts truncated, and only a text that is no number adds nothing.
C16_ConvertibleOnly ==
    (DocDone /\ ~IsNull(d_doc.ftl)) => TotalsRule(FtlAttrib, FALSE)

\* a read command count of ' 2.5 ' counted as 2, beside a mapping read count
\* of 3 and a program count of 4, each in its own total
C16_Witness ==
    /\ DocDone
    /\ ~IsNull(d_doc.ftl)
    /\ DOMAIN FtlAttrib = {Attr.Issued_Flash_Read_CMD, Attr.Issued_Flash_Read_CMD_For_Mapping,
                           Attr.Issued_Flash_Program_CMD}
    /\ FtlAttrib[Attr.Issued_Flash_Read_CMD] = Txt.x2p5
    /\ d_row["ftl_Total_Flash_Read_CMD"] = IntV(2)
    /\ d_row["ftl_Mapping_Read_CMD"] = IntV(3)
    /\ d_row["ftl_Total_Flash_Program_CMD"] = IntV(4)
    /\ d_row["ftl_Mapping_Program_CMD"] = IntV(0)

\* a queue contributes to class p when its Name is p's prefix alone or the
\* prefix followed by an underscore
Contributes(q, p) ==
    /\ "Name" \in DOMAIN q
    /\ \/ q["Name"] = PrefixStr(p)
       \/ StartsWith(q["Name"], PrefixStr(p) \o <<"_">>)

ContributingSeq(p) ==
    IF IsNull(d_doc.tsu) THEN <<>>
    ELSE SelectSeq(d_doc.tsu.qs, LAMBDA q : Contributes(q, p))

\* the sum of a count attribute over the queues that carry it
RECURSIVE CountSum(_, _)
CountSum(qs, attr) ==
    IF qs = <<>> THEN 0
    ELSE CountSum(Tail(qs), attr)
         + (IF IsNull(safe_int(AttrGet(Head(qs), attr))) THEN 0
            ELSE safe_int(AttrGet(Head(qs), attr)).v)

\* the sum of the average lengths of queues that all carry one
RECURSIVE LengthSum(_)
LengthSum(qs) ==
    IF qs = <<>> THEN Flt(0, 1)
    ELSE FAdd(safe_float(AttrGet(Head(qs), "Avg_Queue_Length")), LengthSum(Tail(qs)))

SumOrNull(n) == IF n = 0 THEN Null ELSE Flt(n, 1)

QueueRule(p, qs) ==
    /\ d_row["tsu_" \o p \o "_Transactions_Enqueued"] =
           SumOrNull(CountSum(qs, "No_Of_Transactions_Enqueued"))
    /\ d_row["tsu_" \o p \o "_Transactions_Dequeued"] =
           SumOrNull(CountSum(qs, "No_Of_Transactions_Dequeued"))
    /\ d_row["tsu_" \o p \o "_Avg_Queue_Length"] # Null <=> qs # <<>>
    /\ (/\ qs # <<>>
        /\ \A i \in 1..Len(qs) : ~IsNull(safe_float(AttrGet(qs[i], "Avg_Queue_Length"))))
           => d_row["tsu_" \o p \o "_Avg_Queue_Length"] =
                  FDiv(LengthSum(qs), Flt(Len(qs), 1))

Disjoint(S, T) == S \cap T = {}

\* the key sets of the identity and of the four extractors' mappings are
\* pairwise disjoint and without parse_error, and the record is their union
\* whichever of two keys' mappings is applied last
KeysRule(info, host, ftl, tsu, chip) ==
    /\ \A m \in {info, host, ftl, tsu, chip} : "parse_error" \notin DOMAIN m
    /\ \A m \in {host, ftl, tsu, chip} : Disjoint(DOMAIN info, DOMAIN m)
    /\ \A m \in {ftl, tsu, chip} : Disjoint(DOMAIN host, DOMAIN m)
    /\ \A m \in {tsu, chip} : Disjoint(DOMAIN ftl, DOMAIN m)
    /\ Disjoint(DOMAIN tsu, DOMAIN chip)
    /\ d_row = chip @@ tsu @@ ftl @@ host @@ info
    /\ d_row = info @@ host @@ ftl @@ tsu @@ chip
    /\ d_row = ftl @@ chip @@ info @@ tsu @@ host

\* C18: the keys of the identity, of the host, FTL, TSU and chip/energy
\* mappings and the parse_error key are pairwise disjoint: no update of
\* summarize_file replaces a key set before it, and the record is the same in
\* whatever order the mappings are merged.
C18_DisjointKeys ==
    /\ (d_pc = "done" /\ ~d_doc.ok /\ ~IsRaised(d_row)) =>
           /\ DOMAIN d_row = IdentityKeys \cup {"parse_error"}
           /\ "parse_error" \notin IdentityKeys
    /\ DocDone =>
           KeysRule(parse_experiment_name(DocPath), parse_host_metrics(d_doc),
                    parse_ftl_metrics(d_doc), parse_tsu_metrics(d_doc),
                    parse_chip_metrics_and_energy(d_doc, HostReqCnt(parse_host_metrics(d_doc))))

\* a document with all four sections, each giving the record keys of its own
C18_Witness ==
    /\ DocDone
    /\ ~IsNull(d_doc.host) /\ ~IsNull(d_doc.ftl) /\ ~IsNull(d_doc.tsu) /\ d_doc.chips # <<>>
    /\ {"exp_name", "host_Request_Count", "host_BW_MiB_per_s", "ftl_CMT_Hits",
        "tsu_User_Avg_Waiting_Time", "chip_Avg_Fraction_Idle",
        "energy_Energy_per_IO_Index"} \subseteq DOMAIN d_row
    /\ Cardinality(DOMAIN d_row) =
           Cardinality(IdentityKeys) + Cardinality(DOMAIN parse_host_metrics(d_doc))
           + Cardinality(DOMAIN parse_ftl_metrics(d_doc))
           + Cardinality(DOMAIN parse_tsu_metrics(d_doc)) + 6

----------------------------------------------------------------------------
(* main: the batch driver.  fs is the input directory, a map from entry     *)
(* name to file content; listing is what os.listdir returns, in any order;  *)
(* out_open and out_lines are the output file: whether it has been opened   *)
(* for writing and the lines written to it.                                 *)

InputDir == <<"i", "n">>

\* os.path.join(input_dir, f)
PathOf(f) == InputDir \o <<"/">> \o f

\* the directory entry a path names
EntryOf(path) == DropPrefix(path, Len(InputDir) + 1)

\* f.lower().endswith(".xml") and f.startswith("wl_")
IsInputFile(f) == EndsWith(Lower(f), Lit.dot_xml) /\ StartsWith(f, Lit.wl \o <<"_">>)

\* [os.path.join(input_dir, f) for f in listing if ...]
RECURSIVE CollectPaths(_)
CollectPaths(names) ==
    IF names = <<>> THEN <<>>
    ELSE (IF IsInputFile(Head(names)) THEN <<PathOf(Head(names))>> ELSE <<>>)
         \o CollectPaths(Tail(names))

\* list.sort() on strings
RECURSIVE InsertSorted(_, _)
InsertSorted(x, sorted) ==
    IF sorted = <<>> THEN <<x>>
    ELSE IF StrLess(x, Head(sorted)) THEN <<x>> \o sorted
    ELSE <<Head(sorted)>> \o InsertSorted(x, Tail(sorted))

\* SortedPaths leaving the paths in the order of the listing
SortedPaths_ListingOrder(paths) == paths

RECURSIVE SortedPaths(_)
SortedPaths(paths) ==
    IF paths = <<>> THEN <<>> ELSE InsertSorted(Head(paths), SortedPaths(Tail(paths)))

\* sorted() of the field names
KeyOrder ==
    <<"access_pattern", "block_size", "cache_size",
      "category", "channels", "chip_Avg_Fraction_DataXfer",
      "chip_Avg_Fraction_Exec", "chip_Avg_Fraction_Idle", "chip_Avg_Fraction_Overlap",
      "chips_per_channel", "energy_Energy_per_IO_Index", "energy_Total_Chip_Power_Index",
      "exp_name", "ftl_Average_Page_Movement_For_GC", "ftl_CMT_Hit_Rate",
      "ftl_CMT_Hits", "ftl_CMT_Read_Hit_Rate", "ftl_CMT_Read_Hits",
      "ftl_CMT_Write_Hit_Rate", "ftl_CMT_Write_Hits", "ftl_Mapping_Erase_CMD",
      "ftl_Mapping_Program_CMD", "ftl_Mapping_Read_CMD", "ftl_Total_CMT_Queries",
      "ftl_Total_CMT_Read_Queries", "ftl_Total_CMT_Write_Queries", "ftl_Total_Flash_Erase_CMD",
      "ftl_Total_Flash_Program_CMD", "ftl_Total_Flash_Read_CMD", "ftl_Total_GC_Executions",
      "host_BW_Bytes_per_s", "host_BW_MiB_per_s", "host_Device_Response_Time",
      "host_E2E_Latency_ms_assuming_us", "host_End_to_End_Request_Delay", "host_IOPS",
      "host_Read_BW_Bytes_per_s", "host_Read_BW_MiB_per_s", "host_Read_IOPS",
      "host_Read_Request_Count", "host_Request_Count", "host_Write_BW_Bytes_per_s",
      "host_Write_BW_MiB_per_s", "host_Write_IOPS", "host_Write_Request_Count",
      "io_queue_depth", "parse_error", "tpcc_variant",
      "tsu_GC_Avg_Queue_Length", "tsu_GC_Avg_Waiting_Time", "tsu_GC_Transactions_Dequeued",
      "tsu_GC_Transactions_Enqueued", "tsu_Mapping_Avg_Queue_Length", "tsu_Mapping_Avg_Waiting_Time",
      "tsu_Mapping_Transactions_Dequeued", "tsu_Mapping_Transactions_Enqueued", "tsu_User_Avg_Queue_Length",
      "tsu_User_Avg_Waiting_Time", "tsu_User_Transactions_Dequeued", "tsu_User_Transactions_Enqueued">>

\* AllKeys taking the keys of the first row only
AllKeys_FirstRow(rs) == DOMAIN rs[1]

\* all_keys: the union of the keys of the rows
AllKeys(rs) == UNION {DOMAIN rs[i] : i \in 1..Len(rs)}

\* sorted(all_keys)
SortedKeys(keys) == SelectSeq(KeyOrder, LAMBDA key : key \in keys)

\* What csv writes for a value: nothing for None, the characters of a str,
\* and for a number its decimal spelling, kept as the number it spells.
Text(s) == [k |-> "text", v |-> s]
Cell(v) ==
    IF IsNull(v) THEN Text(<<>>)
    ELSE IF v.k = "str" THEN Text(v.v)
    ELSE [k |-> "number", v |-> v]

\* DictWriter.writerow: rowdict.get(key, "") for each field name
RowCells(fieldnames, r) ==
    [i \in 1..Len(fieldnames) |->
        IF fieldnames[i] \in DOMAIN r THEN Cell(r[fieldnames[i]]) ELSE Text(<<>>)]

\* DictWriter.writeheader
HeaderCells(fieldnames) == [i \in 1..Len(fieldnames) |-> [k |-> "name", v |-> fieldnames[i]]]

ListDir ==
    /\ pc = "listdir"
    /\ \E order \in [1..Cardinality(DOMAIN fs) -> DOMAIN fs] :
          /\ \A i, j \in DOMAIN order : i # j => order[i] # order[j]
          /\ listing' = order
    /\ pc' = "collect"
    /\ UNCHANGED <<fs, xml_files, idx, rows, header, out_open, out_lines, fatal, nameVars, docVars>>

Collect ==
    /\ pc = "collect"
    /\ xml_files' = SortedPaths(CollectPaths(listing))
    /\ pc' = "check"
    /\ UNCHANGED <<fs, listing, idx, rows, header, out_open, out_lines, fatal, nameVars, docVars>>

\* CheckEmpty with the output opened before the list of files is examined
CheckEmpty_OpensFirst ==
    /\ pc = "check"
    /\ IF xml_files = <<>>
          THEN fatal' = Raised("SystemExit") /\ pc' = "exit" /\ idx' = idx
          ELSE fatal' = fatal /\ pc' = "summarize" /\ idx' = 1
    /\ out_open' = TRUE
    /\ UNCHANGED <<fs, listing, xml_files, rows, header, out_lines, nameVars, docVars>>

\* if not xml_files: raise SystemExit(...)
CheckEmpty ==
    /\ pc = "check"
    /\ IF xml_files = <<>>
          THEN fatal' = Raised("SystemExit") /\ pc' = "exit" /\ idx' = idx
          ELSE fatal' = fatal /\ pc' = "summarize" /\ idx' = 1
    /\ UNCHANGED <<fs, listing, xml_files, rows, header, out_open, out_lines, nameVars, docVars>>

\* one step of rows = [summarize_file(p) for p in xml_files]; an exception
\* that summarize_file lets through ends the run
SummarizeNext ==
    /\ pc = "summarize"
    /\ \E r \in {summarize_file(xml_files[idx], fs[EntryOf(xml_files[idx])])} :
          IF IsRaised(r)
             THEN fatal' = r /\ pc' = "exit" /\ rows' = rows /\ idx' = idx
             ELSE /\ fatal' = fatal
                  /\ rows' = Append(rows, r)
                  /\ idx' = idx + 1
                  /\ pc' = IF idx = Len(xml_files) THEN "header" ELSE "summarize"
    /\ UNCHANGED <<fs, listing, xml_files, header, out_open, out_lines, nameVars, docVars>>

ComputeHeader ==
    /\ pc = "header"
    /\ header' = SortedKeys(AllKeys(rows))
    /\ pc' = "open"
    /\ UNCHANGED <<fs, listing, xml_files, idx, rows, out_open, out_lines, fatal, nameVars, docVars>>

\* open(output_csv, "w")
OpenOutput ==
    /\ pc = "open"
    /\ out_open' = TRUE
    /\ out_lines' = <<>>
    /\ pc' = "writeheader"
    /\ UNCHANGED <<fs, listing, xml_files, idx, rows, header, fatal, nameVars, docVars>>

WriteHeader ==
    /\ pc = "writeheader"
    /\ out_lines' = Append(out_lines, HeaderCells(header))
    /\ idx' = 1
    /\ pc' = "writerows"
    /\ UNCHANGED <<fs, listing, xml_files, rows, header, out_open, fatal, nameVars, docVars>>

WriteRow ==
    /\ pc = "writerows"
    /\ out_lines' = Append(out_lines, RowCells(header, rows[idx]))
    /\ idx' = idx + 1
    /\ pc' = IF idx = Len(rows) THEN "done" ELSE "writerows"
    /\ UNCHANGED <<fs, listing, xml_files, rows, header, out_open, fatal, nameVars, docVars>>

\* The explored directories: at most MaxFiles entries, each with one of the contents.
\* the entries of the explored directories
Entry ==
    [wl_ch4_chip2_xml |-> <<"w", "l", "_", "c", "h", "4", "_", "c", "h", "i", "p", "2", ".", "x", "m", "l">>,
     wl_cache_xml |-> <<"w", "l", "_", "c", "a", "c", "h", "e", ".", "x", "m", "l">>,
     wl_tpcc_ioqd8_XML |-> <<"w", "l", "_", "t", "p", "c", "c", "_", "i", "o", "q", "d", "8", ".", "X", "M", "L">>,
     notes_xml |-> <<"n", "o", "t", "e", "s", ".", "x", "m", "l">>,
     wl_ioqd8_txt |-> <<"w", "l", "_", "i", "o", "q", "d", "8", ".", "t", "x", "t">>,
     wl_Zed_xml |-> <<"w", "l", "_", "Z", "e", "d", ".", "x", "m", "l">>]

FileContents ==
    {Unparseable(<<"s", "y", "n", "t", "a", "x">>),
     Document(HostNode(("Request_Count" :> StrV(Txt.x100)) @@ ("Bandwidth" :> StrV(Txt.x2MiB))),
              FtlNode((Attr.Total_CMT_Queries :> Txt.x4) @@ (Attr.CMT_Hits :> Txt.x3)
                      @@ (Attr.Issued_Flash_Read_CMD :> Txt.x3)),
              TsuNode(<<Queue(QName.User_A, Txt.x10, Txt.x5p0, Txt.x3), Queue(QName.User_B, Txt.x30, Txt.x1p0, Txt.x0p5)>>),
              <<Chip(Txt.x50, Txt.x0, Txt.x0, Txt.x0)>>),
     Document(HostNode("Request_Count" :> StrV(Txt.xinf)), Null, Null, <<>>)}

Directories ==
    UNION {[S -> FileContents] :
             S \in {T \in SUBSET {Entry.wl_ch4_chip2_xml, Entry.wl_cache_xml, Entry.wl_tpcc_ioqd8_XML,
                                  Entry.notes_xml, Entry.wl_ioqd8_txt, Entry.wl_Zed_xml} :
                       Cardinality(T) <= MaxFiles}}

Init ==
    /\ pc = "listdir" /\ fs \in Directories /\ listing = <<>> /\ xml_files = <<>> /\ idx = 0
    /\ rows = <<>> /\ header = <<>> /\ out_open = FALSE /\ out_lines = <<>> /\ fatal = Null
    /\ NameIdle /\ DocIdle

Next ==
    \/ ListDir
    \/ Collect
    \/ CheckEmpty
    \/ SummarizeNext
    \/ ComputeHeader
    \/ OpenOutput
    \/ WriteHeader
    \/ WriteRow

Spec == Init /\ [][Next]_vars

----------------------------------------------------------------------------
(* Claims about the batch driver.                                           *)

\* the directory entries main takes for input files
Discovered == {f \in DOMAIN fs : IsInputFile(f)}

\* the entry with exactly n - 1 discovered entries before it in str order
NthDiscovered(n) == CHOOSE f \in Discovered : Cardinality({g \in Discovered : StrLess(g, f)}) = n - 1

\* the record of one file, computed from its own name and content only
RecordOf(f) == summarize_file(PathOf(f), fs[f])

Range(seq) == {seq[i] : i \in 1..Len(seq)}

\* position of a field name in the str order of the field names
KeyRank(key) == CHOOSE i \in 1..Len(KeyOrder) : KeyOrder[i] = key

\* C1 as stated: with one or more input files the batch completes whatever
\* the files contain; the run ends fatally only when no input file was found.
C1_OnlyFatalIsNoInput ==
    pc = "exit" => (xml_files = <<>> /\ fatal = Raised("SystemExit"))

\* C4: the record of a file whose document cannot be parsed has exactly the
\* identity fields and parse_error, parse_error is a string, and the identity
\* fields are those parse_experiment_name gives for the file.
C4_ParseErrorRecord ==
    \A i \in 1..Len(rows) :
        ~fs[EntryOf(xml_files[i])].ok =>
            /\ DOMAIN rows[i] = IdentityKeys \cup {"parse_error"}
            /\ rows[i]["parse_error"].k = "str"
            /\ \A f \in IdentityKeys : rows[i][f] = parse_experiment_name(xml_files[i])[f]

\* a computed record of an unparseable file
C4_Witness ==
    \E i \in 1..Len(rows) :
        /\ ~fs[EntryOf(xml_files[i])].ok
        /\ "parse_error" \in DOMAIN rows[i]
        /\ rows[i]["category"] = StrV(Lit.ch_chip)

\* C5: the output is opened, and anything written, only once the list of
\* input files is non-empty and every record is computed; a run that ends
\* fatally has opened and written nothing; a run that ends normally has
\* written the header and every row.
C5_OutputAfterAllRows ==
    /\ (out_open \/ out_lines # <<>>) =>
           /\ xml_files # <<>>
           /\ Len(rows) = Len(xml_files)
           /\ fatal = Null
    /\ pc = "exit" => (~out_open /\ out_lines = <<>> /\ fatal # Null)
    /\ pc = "done" => (out_open /\ Len(out_lines) = Len(xml_files) + 1)

\* a run ended by an exception after a first record was computed
C5_Witness ==
    /\ pc = "exit"
    /\ fatal = Raised("OverflowError")
    /\ Len(rows) = 1
    /\ ~out_open
    /\ out_lines = <<>>

\* what C6 says besides the blank cells: one row per discovered file, in
\* ascending order of file name, under the sorted union of the records' keys
TableShape ==
    /\ Len(out_lines) = Cardinality(Discovered) + 1
    /\ Len(rows) = Cardinality(Discovered)
    /\ \A i \in 1..Len(rows) :
           /\ rows[i]["exp_name"] = StrV(StripXml(NthDiscovered(i)))
           /\ out_lines[i + 1] = RowCells(header, rows[i])
    /\ out_lines[1] = HeaderCells(header)
    /\ Range(header) = UNION {DOMAIN rows[i] : i \in 1..Len(rows)}
    /\ \A i, j \in 1..Len(header) : i < j => KeyRank(header[i]) < KeyRank(header[j])
    /\ ("parse_error" \in Range(header)) <=> (\E i \in 1..Len(rows) : "parse_error" \in DOMAIN rows[i])

\* C6 as stated: the table has that shape, and a cell is blank exactly when
\* the record lacks the key or holds null for it.
C6_BlankIffMissingOrNull ==
    pc = "done" =>
        /\ TableShape
        /\ \A i \in 1..Len(rows) : \A j \in 1..Len(header) :
               (out_lines[i + 1][j] = Text(<<>>))
                   <=> (header[j] \notin DOMAIN rows[i] \/ rows[i][header[j]] = Null)

\* C6 amended: the table has that shape, and a cell is blank exactly when the
\* record lacks the key, holds null for it, or holds the empty string.
C6_BlankIffMissingNullOrEmpty ==
    pc = "done" =>
        /\ TableShape
        /\ \A i \in 1..Len(rows) : \A j \in 1..Len(header) :
               (out_lines[i + 1][j] = Text(<<>>))
                   <=> \/ header[j] \notin DOMAIN rows[i]
                       \/ rows[i][header[j]] = Null
                       \/ rows[i][header[j]] = StrV(<<>>)

\* a written table of two rows with different key sets, one of them with an
\* empty cache_size
C6_Witness ==
    /\ pc = "done"
    /\ Len(rows) = 2
    /\ DOMAIN rows[1] # DOMAIN rows[2]
    /\ \E i \in 1..2 : rows[i]["cache_size"] = StrV(<<>>)

\* the table of a directory, from the set of its (name, content) pairs
TableOf ==
    LET n == Cardinality(Discovered)
        fieldnames == SortedKeys(UNION {DOMAIN RecordOf(f) : f \in Discovered})
    IN  <<HeaderCells(fieldnames)>>
        \o [i \in 1..n |-> RowCells(fieldnames, RecordOf(NthDiscovered(i)))]

\* C7: the written table is determined by the set of (file name, content)
\* pairs, whatever the order of the listing, and each row is the record of
\* its own file alone.
C7_TableOfInputsAlone ==
    pc = "done" =>
        /\ out_lines = TableOf
        /\ \A i \in 1..Len(rows) : rows[i] = RecordOf(EntryOf(xml_files[i]))

\* a written table whose listing came in descending order of file name
C7_Witness ==
    /\ pc = "done"
    /\ Len(listing) = 2
    /\ IsInputFile(listing[1]) /\ IsInputFile(listing[2])
    /\ StrLess(listing[2], listing[1])
    /\ out_lines = TableOf

=============================================================================
